---- MODULE Spec2Model ----
(***************************************************************************)
(* Model of the byte-packed Fenwick tree (dyn::ByteFenwickTree) and of the *)
(* rank/select dictionary built on it (dyn::LineRankSelect, the variant    *)
(* with LEAF_BITSIZE = 7 + WORDS - 1), src/include/fenwick/byte.hpp.       *)
(*                                                                         *)
(* Representation of machine values.                                       *)
(*  - The byte buffer `tree` is a function 0..alloc-1 -> 0..255.  A node   *)
(*    access is the code's unaligned 64-bit load/store at a byte position, *)
(*    little-endian.                                                       *)
(*  - A uint64_t is written as its two's-complement representative: the    *)
(*    values near 2^64 are the negative integers (-1 is 0xFFFF...FFFF,     *)
(*    SIZE_MAX).  +, - are then exact modulo 2^64 as long as the values    *)
(*    stay within 2^31 of 0 or of 2^64, which they do within the bounds;   *)
(*    unsigned comparison is UGe / ULt.                                    *)
(*  - A 64-bit word of the bit vector is the set of its 1-bit positions,   *)
(*    a subset of 0..63.                                                   *)
(***************************************************************************)
EXTENDS Integers, Sequences, FiniteSets, TLC

VARIABLES
    LEAF_BITSIZE,  \* template parameter of ByteFenwickTree
    size,          \* ByteFenwickTree::size
    tree,          \* ByteFenwickTree::tree, the byte buffer
    level,         \* ByteFenwickTree::level, byte offset of each level
    WORDS,         \* template parameter of LineRankSelect (0: no dictionary)
    bitvector,     \* LineRankSelect::_bitvector, word index -> word
    heap,          \* the word found in memory outside the objects' buffers
    sequence,      \* ghost: the increments the tree stands for (v plus deltas)
    naive,         \* the reference tree: node label -> value
    ctor,          \* ghost: which constructor built the object
    ncalls,        \* ghost: number of set / update calls so far
    lastInc        \* ghost: the increment of the last set call (0: none yet)

vars == <<LEAF_BITSIZE, size, tree, level, WORDS, bitvector, heap,
          sequence, naive, ctor, ncalls, lastInc>>

-----------------------------------------------------------------------------
(* Bounds of the model *)

\* largest tree size N explored by Spec
MaxN == 5
\* largest number of set calls in a run of Spec
MaxSets == 1
\* largest bit vector length (in words) explored by SpecRS
MaxLen == 5
\* largest block width explored by SpecRS
MaxWords == 3
\* largest number of update calls in a run of SpecRS
MaxUpdates == 1

-----------------------------------------------------------------------------
(* Bit-twiddling primitives of common.hpp *)

RECURSIVE Pow2(_)
Pow2(n) == IF n <= 0 THEN 1 ELSE 2 * Pow2(n - 1)

RECURSIVE Pow256(_)
Pow256(n) == IF n <= 0 THEN 1 ELSE 256 * Pow256(n - 1)

RECURSIVE Xor(_, _)
Xor(a, b) ==
    IF a = 0 /\ b = 0 THEN 0
    ELSE (((a % 2) + (b % 2)) % 2) + (2 * Xor(a \div 2, b \div 2))

\* 1-based position of the highest set bit, 0 for 0
RECURSIVE find_last_set(_)
find_last_set(x) == IF x = 0 THEN 0 ELSE 1 + find_last_set(x \div 2)

\* 1-based position of the lowest set bit, 0 for 0
RECURSIVE find_first_set(_)
find_first_set(x) ==
    IF x = 0 THEN 0
    ELSE IF x % 2 = 1 THEN 1 ELSE 1 + find_first_set(x \div 2)

\* the highest set bit of x, isolated
mask_last_set(x) == IF x = 0 THEN 0 ELSE Pow2(find_last_set(x) - 1)

\* the lowest set bit of x, isolated (x & -x)
mask_first_set(x) == IF x = 0 THEN 0 ELSE Pow2(find_first_set(x) - 1)

\* unsigned a >= b on two's-complement representatives
UGe(a, b) ==
    IF (a < 0) = (b < 0) THEN a >= b ELSE a < 0

\* unsigned a < b
ULt(a, b) == ~UGe(a, b)

-----------------------------------------------------------------------------
(* Unaligned 64-bit accesses to the byte buffer *)

\* the value of bits b..n-1 of a word, each at its own weight
RECURSIVE LowBits(_, _, _)
LowBits(w, b, n) ==
    IF b >= n THEN 0
    ELSE (IF b \in w THEN Pow2(b) ELSE 0) + LowBits(w, b + 1, n)

\* the byte at position p: of the buffer, or of the memory after it
ByteAt(t, p, h) ==
    IF p \in DOMAIN t THEN t[p] ELSE LowBits(h, 0, 8)

\* *(auint64_t*)&t[pos] & BYTE_MASK[n]: the low n bytes of the load
RECURSIVE LoadMasked(_, _, _, _)
LoadMasked(t, pos, n, h) ==
    IF n = 0 THEN 0
    ELSE ByteAt(t, pos, h) + (256 * LoadMasked(t, pos + 1, n - 1, h))

\* byte k of the 64-bit two's-complement value x
ByteOf(x, k) ==
    IF x >= 0
    THEN (IF k >= 4 THEN 0 ELSE (x \div Pow256(k)) % 256)
    ELSE (IF k >= 4 THEN 255 ELSE 255 - (((-x - 1) \div Pow256(k)) % 256))

\* *p &= ~BYTE_MASK[n]; *p |= value & BYTE_MASK[n]: the low n bytes replaced
StoreMasked(t, pos, n, value) ==
    [p \in DOMAIN t |->
        IF p >= pos /\ p < pos + n THEN ByteOf(value, p - pos) ELSE t[p]]

\* *p += inc on the 8 bytes at pos: a 64-bit addition, the carry running
\* through all 8 bytes
RECURSIVE Add64(_, _, _, _, _)
Add64(t, pos, inc, k, carry) ==
    IF k = 8 \/ (pos + k) \notin DOMAIN t THEN t
    ELSE LET s == t[pos + k] + ByteOf(inc, k) + carry
         IN  Add64([t EXCEPT ![pos + k] = s % 256], pos, inc, k + 1, s \div 256)

-----------------------------------------------------------------------------
(* ByteFenwickTree *)

get_size(LB, height) == ((height + LB - 1) \div 8) + 1

\* level[i] of the constructor
RECURSIVE LevelOffset(_, _, _)
LevelOffset(LB, n, i) ==
    IF i = 0 THEN 0
    ELSE (((n + Pow2(i - 1)) \div Pow2(i)) * get_size(LB, i - 1))
         + LevelOffset(LB, n, i - 1)

\* the value the constructor computes for `node` of level l: its own
\* increment plus the nodes below it that were stored before
RECURSIVE CtorValue(_, _, _, _, _, _, _, _)
CtorValue(t, lv, LB, l, j, sequence_idx, value, h) ==
    IF j >= l THEN value
    ELSE LET si == sequence_idx \div 2
             prev_byte_pos == lv[j] + get_size(LB, j) * si
         IN  CtorValue(t, lv, LB, l, j + 1, si,
                       value + LoadMasked(t, prev_byte_pos, get_size(LB, j), h), h)

\* the constructor's two nested loops over the levels and their nodes
RECURSIVE CtorFill(_, _, _, _, _, _, _, _)
CtorFill(t, lv, LB, seq, n, l, node, h) ==
    IF l >= Cardinality(DOMAIN lv) - 1 THEN t
    ELSE IF node > n THEN CtorFill(t, lv, LB, seq, n, l + 1, Pow2(l + 1), h)
    ELSE LET curr_byte_pos == lv[l] + get_size(LB, l) * (node \div Pow2(l + 1))
             value == CtorValue(t, lv, LB, l, 0, node - 1, seq[node - 1], h)
         IN  CtorFill(StoreMasked(t, curr_byte_pos, get_size(LB, l), value),
                      lv, LB, seq, n, l, node + Pow2(l + 1), h)

\* ByteFenwickTree(sequence, size): the object, as a record of its fields.
\* The buffer of level[levels] + 3 bytes starts zeroed (DArray); every byte of
\* a node is then written by the loops, the 3 trailing bytes stay zero.
ByteFenwickTree(LB, seq, n, h) ==
    LET lv == [i \in 0..find_last_set(n) |-> LevelOffset(LB, n, i)]
        levels == find_last_set(n)
        zero == [p \in 0..(lv[levels] + 3 - 1) |-> 0]
    IN  [LB |-> LB, size |-> n, level |-> lv,
         tree |-> CtorFill(zero, lv, LB, seq, n, 0, 1, h)]

RECURSIVE GetLoop(_, _, _, _, _)
GetLoop(T, idx, index, sum, h) ==
    LET index2 == index + mask_last_set(Xor(idx, index))
        height == find_first_set(index2) - 1
        level_idx == index2 \div Pow2(1 + height)
        elem_size == get_size(T.LB, height)
        byte_pos == T.level[height] + elem_size * level_idx
        sum2 == sum + LoadMasked(T.tree, byte_pos, elem_size, h)
    IN  IF Xor(idx, index2) # 0 THEN GetLoop(T, idx, index2, sum2, h) ELSE sum2

\* a get whose walk takes the level index without dropping the node's lowest bit
RECURSIVE GetLoopShift(_, _, _, _, _)
GetLoopShift(T, idx, index, sum, h) ==
    LET index2 == index + mask_last_set(Xor(idx, index))
        height == find_first_set(index2) - 1
        level_idx == index2 \div Pow2(height)
        elem_size == get_size(T.LB, height)
        byte_pos == T.level[height] + elem_size * level_idx
        sum2 == sum + LoadMasked(T.tree, byte_pos, elem_size, h)
    IN  IF Xor(idx, index2) # 0 THEN GetLoopShift(T, idx, index2, sum2, h) ELSE sum2

get_shifted(T, idx, h) == GetLoopShift(T, idx + 1, 0, 0, h)

\* uint64_t get(size_t idx)
get(T, idx, h) == GetLoop(T, idx + 1, 0, 0, h)

\* a set whose loop visits every node from idx + 1 on (idx++)
RECURSIVE SetLoopLinear(_, _, _, _)
SetLoopLinear(T, t, idx, inc) ==
    IF idx > T.size THEN t
    ELSE LET height == find_first_set(idx) - 1
             level_idx == idx \div Pow2(1 + height)
             byte_pos == T.level[height] + get_size(T.LB, height) * level_idx
         IN  SetLoopLinear(T, Add64(t, byte_pos, inc, 0, 0), idx + 1, inc)

RECURSIVE SetLoop(_, _, _, _)
SetLoop(T, t, idx, inc) ==
    IF idx > T.size THEN t
    ELSE LET height == find_first_set(idx) - 1
             level_idx == idx \div Pow2(1 + height)
             byte_pos == T.level[height] + get_size(T.LB, height) * level_idx
         IN  SetLoop(T, Add64(t, byte_pos, inc, 0, 0), idx + mask_first_set(idx), inc)

\* a set whose loop stops one node early (idx < size)
RECURSIVE SetLoopShort(_, _, _, _)
SetLoopShort(T, t, idx, inc) ==
    IF idx >= T.size THEN t
    ELSE LET height == find_first_set(idx) - 1
             level_idx == idx \div Pow2(1 + height)
             byte_pos == T.level[height] + get_size(T.LB, height) * level_idx
         IN  SetLoopShort(T, Add64(t, byte_pos, inc, 0, 0), idx + mask_first_set(idx), inc)

set_short(T, idx, inc) == [T EXCEPT !.tree = SetLoopShort(T, T.tree, idx + 1, inc)]

\* void set(size_t idx, int64_t inc): the object after the call
set(T, idx, inc) == [T EXCEPT !.tree = SetLoop(T, T.tree, idx + 1, inc)]

\* the base byte of the node with 1-based label idx
NodePos(T, idx) ==
    LET height == find_first_set(idx) - 1
        level_idx == idx \div Pow2(1 + height)
    IN  T.level[height] + (get_size(T.LB, height) * level_idx)

\* the bytes of the buffer that belong to the node with label idx
NodeBytes(T, idx) ==
    LET elem_size == get_size(T.LB, find_first_set(idx) - 1)
    IN  NodePos(T, idx)..(NodePos(T, idx) + elem_size - 1)

\* the value stored in the node with label idx of the buffer t
NodeValue(T, t, idx, h) ==
    LoadMasked(t, NodePos(T, idx), get_size(T.LB, find_first_set(idx) - 1), h)

\* the labels the loop of set visits from idx on
RECURSIVE SetPath(_, _)
SetPath(T, idx) ==
    IF idx > T.size THEN {} ELSE {idx} \cup SetPath(T, idx + mask_first_set(idx))

RECURSIVE FindLoop(_, _, _, _, _, _, _)
FindLoop(T, height, node, idx, val, complement, h) ==
    IF height = -1 THEN (IF node <= T.size THEN node - 1 ELSE T.size - 1)
    ELSE LET elem_size == get_size(T.LB, height)
             byte_pos == T.level[height] + elem_size * idx
             levels == Cardinality(DOMAIN T.level) - 1
             read == IF byte_pos >= T.level[levels] THEN -1
                     ELSE LoadMasked(T.tree, byte_pos, elem_size, h)
             value == IF complement
                      THEN Pow2(T.LB + height - 1) - read
                      ELSE read
         IN  IF UGe(val, value)
             THEN FindLoop(T, height - 1, node + Pow2(height), 2 * idx + 1,
                           val - value, complement, h)
             ELSE FindLoop(T, height - 1, node, 2 * idx, val, complement, h)

\* a find that moves right only on val > value
RECURSIVE FindLoopStrict(_, _, _, _, _, _, _)
FindLoopStrict(T, height, node, idx, val, complement, h) ==
    IF height = -1 THEN (IF node <= T.size THEN node - 1 ELSE T.size - 1)
    ELSE LET elem_size == get_size(T.LB, height)
             byte_pos == T.level[height] + elem_size * idx
             levels == Cardinality(DOMAIN T.level) - 1
             read == IF byte_pos >= T.level[levels] THEN -1
                     ELSE LoadMasked(T.tree, byte_pos, elem_size, h)
             value == IF complement
                      THEN Pow2(T.LB + height - 1) - read
                      ELSE read
         IN  IF UGe(val, value) /\ val # value
             THEN FindLoopStrict(T, height - 1, node + Pow2(height), 2 * idx + 1,
                                 val - value, complement, h)
             ELSE FindLoopStrict(T, height - 1, node, 2 * idx, val, complement, h)

find_strict(T, val, complement, h) ==
    FindLoopStrict(T, Cardinality(DOMAIN T.level) - 2, 0, 0, val, complement, h)

\* size_t find(uint64_t val, bool complement = false)
find(T, val, complement, h) ==
    FindLoop(T, Cardinality(DOMAIN T.level) - 2, 0, 0, val, complement, h)

\* the iterations of the loop of find, one record each: the label of the
\* candidate node (node + 2^height), the bytes of the buffer its value is
\* loaded from (none when the guard of line 127 fires) and whether the
\* search moved right onto the candidate
RECURSIVE FindSteps(_, _, _, _, _, _, _)
FindSteps(T, height, node, idx, val, complement, h) ==
    IF height = -1 THEN {}
    ELSE LET elem_size == get_size(T.LB, height)
             byte_pos == T.level[height] + elem_size * idx
             levels == Cardinality(DOMAIN T.level) - 1
             guarded == byte_pos >= T.level[levels]
             read == IF guarded THEN -1
                     ELSE LoadMasked(T.tree, byte_pos, elem_size, h)
             value == IF complement THEN Pow2(T.LB + height - 1) - read ELSE read
             step == [label |-> node + Pow2(height),
                      bytes |-> IF guarded THEN {}
                                ELSE byte_pos..(byte_pos + elem_size - 1),
                      moved |-> UGe(val, value)]
         IN  {step} \cup
             (IF UGe(val, value)
              THEN FindSteps(T, height - 1, node + Pow2(height), 2 * idx + 1, val - value, complement, h)
              ELSE FindSteps(T, height - 1, node, 2 * idx, val, complement, h))

\* the iterations of find(val, complement)
find_steps(T, val, complement, h) ==
    FindSteps(T, Cardinality(DOMAIN T.level) - 2, 0, 0, val, complement, h)

\* the object made of the current values of its fields
Self == [LB |-> LEAF_BITSIZE, size |-> size, level |-> level, tree |-> tree]

-----------------------------------------------------------------------------
(* The reference: a Fenwick tree with one full word per node, the nodes   *)
(* with a label above N absent (NaiveFenwickTree; spec sections 3, 4.1)   *)

RECURSIVE SumRange(_, _, _)
SumRange(seq, lo, hi) ==
    IF lo > hi THEN 0 ELSE seq[hi] + SumRange(seq, lo, hi - 1)

\* the node labelled x holds v[x - lowbit(x)] + ... + v[x - 1]
NaiveFenwickTree(seq, n) ==
    [x \in 1..n |-> SumRange(seq, x - mask_first_set(x), x - 1)]

RECURSIVE NaiveGetLoop(_, _)
NaiveGetLoop(nt, x) ==
    IF x = 0 THEN 0 ELSE nt[x] + NaiveGetLoop(nt, x - mask_first_set(x))

NaiveGet(nt, idx) == NaiveGetLoop(nt, idx + 1)

RECURSIVE NaiveSetLoop(_, _, _)
NaiveSetLoop(nt, x, inc) ==
    IF x \notin DOMAIN nt THEN nt
    ELSE NaiveSetLoop([nt EXCEPT ![x] = @ + inc], x + mask_first_set(x), inc)

NaiveSet(nt, idx, inc) == NaiveSetLoop(nt, idx + 1, inc)

RECURSIVE NaiveFindLoop(_, _, _, _, _, _)
NaiveFindLoop(nt, LB, height, node, val, complement) ==
    IF height = -1 THEN node - 1
    ELSE LET cand == node + Pow2(height)
             value == IF complement
                      THEN Pow2(LB + height - 1) - nt[cand]
                      ELSE nt[cand]
         IN  IF cand \in DOMAIN nt /\ UGe(val, value)
             THEN NaiveFindLoop(nt, LB, height - 1, cand, val - value, complement)
             ELSE NaiveFindLoop(nt, LB, height - 1, node, val, complement)

NaiveFind(nt, LB, val, complement) ==
    NaiveFindLoop(nt, LB, find_last_set(Cardinality(DOMAIN nt)) - 1, 0, val, complement)

-----------------------------------------------------------------------------
(* Spec: one ByteFenwickTree under set calls *)

\* the leaf bound: the largest increment a leaf of the tree is sized for
LeafMax(LB) == Pow2(LB - 1)

\* the template instantiations explored
LeafBitsizes == {3, 7}

\* the increments explored: the extremes of [0, LeafMax] and 1
Increments(LB) == {0, 1, LeafMax(LB)}

\* the contents of the memory outside the buffers that are explored
HeapWords == {{}, 0..63}

InitTree ==
    \E LB \in LeafBitsizes, n \in 1..MaxN, hp \in HeapWords :
      \E v \in [0..(n - 1) -> Increments(LB)] :
        LET T == ByteFenwickTree(LB, v, n, hp)
        IN  /\ LEAF_BITSIZE = LB
            /\ size = T.size
            /\ level = T.level
            /\ tree = T.tree
            /\ WORDS = 0
            /\ bitvector = << >>
            /\ heap = hp
            /\ sequence = v
            /\ naive = NaiveFenwickTree(v, n)
            /\ ctor = "tree"
            /\ ncalls = 0
            /\ lastInc = 0

\* tree.set(i, d), the element staying within [0, LeafMax]
Set(i, d) ==
    /\ ncalls < MaxSets
    /\ d # 0
    /\ tree' = set(Self, i, d).tree
    /\ sequence' = [sequence EXCEPT ![i] = @ + d]
    /\ naive' = NaiveSet(naive, i, d)
    /\ ncalls' = ncalls + 1
    /\ lastInc' = d
    /\ UNCHANGED <<LEAF_BITSIZE, size, level, WORDS, bitvector, heap, ctor>>

NextTree ==
    \E i \in 0..(size - 1), w \in Increments(LEAF_BITSIZE) : Set(i, w - sequence[i])

Spec == InitTree /\ [][NextTree]_vars

\* S[i], the prefix sum of the increments the tree stands for
PrefixSum(i) == SumRange(sequence, 0, i)

\* the largest j in [0, N-1] with S[j] <= t; -1 (SIZE_MAX) when S[0] > t
RECURSIVE LargestLeq(_, _)
LargestLeq(t, j) ==
    IF j < 0 THEN -1
    ELSE IF PrefixSum(j) <= t THEN j ELSE LargestLeq(t, j - 1)

\* the smallest j in [0, N-1] with S[j] > t; N-1 when there is none
RECURSIVE SmallestGt(_, _)
SmallestGt(t, j) ==
    IF j >= size - 1 THEN size - 1
    ELSE IF PrefixSum(j) > t THEN j ELSE SmallestGt(t, j + 1)

\* the thresholds a find is asked for: everything up to past the total
FindArgs == 0..(PrefixSum(size - 1) + 1)

\* every node label of a top-down walk exists: N = 2^k - 1
PerfectSize == Pow2(find_last_set(size)) = size + 1

-----------------------------------------------------------------------------
(* Claims about the ByteFenwickTree, checked under Spec *)

\* C1 (round trip): a tree freshly constructed from v returns
\* get(i) = v[0] + ... + v[i] for every i in [0, N).
C1_RoundTrip ==
    (ctor = "tree" /\ ncalls = 0) =>
        \A i \in 0..(size - 1) : get(Self, i, heap) = PrefixSum(i)

\* a fresh tree of 5 elements whose level-2 node needs its second byte
C1_Witness ==
    /\ ctor = "tree" /\ ncalls = 0 /\ size = 5 /\ LEAF_BITSIZE = 7
    /\ sequence[3] = 64 /\ get(Self, 4, heap) = 4 * 64 + 1

C4_FindInvertsGet ==
    (ctor = "tree" /\ \A j \in 0..(size - 1) : sequence[j] > 0) =>
        /\ \A i \in 0..(size - 1) :
               find(Self, get(Self, i, heap), FALSE, heap) = i
        /\ \A e \in 0..2 :
               find(Self, get(Self, size - 1, heap) + e, FALSE, heap) = size - 1

\* C5 (cross-variant equivalence): with increments in [0, 64] the byte-packed
\* tree answers get(i), find(t) and find_complement(t), i, t in [0, N), as
\* the naive tree built from the same v and given the same updates.
C5_SameAsNaive ==
    (ctor = "tree" /\ LEAF_BITSIZE = 7) =>
        \A i \in 0..(size - 1) :
            /\ get(Self, i, heap) = NaiveGet(naive, i)
            /\ find(Self, i, FALSE, heap) = NaiveFind(naive, LEAF_BITSIZE, i, FALSE)
            /\ find(Self, i, TRUE, heap) = NaiveFind(naive, LEAF_BITSIZE, i, TRUE)

\* the tree built from the complemented sequence v'[i] = L - v[i]
ComplementTree ==
    ByteFenwickTree(LEAF_BITSIZE,
                    [j \in 0..(size - 1) |-> LeafMax(LEAF_BITSIZE) - sequence[j]],
                    size, heap)

\* C6 (complement duality): find_complement(t) on the tree of v is find(t)
\* on the tree built from v'[i] = L - v[i], L the leaf bound, for every t.
C6_ComplementDuality ==
    ctor = "tree" =>
        \A t \in 0..(size * LeafMax(LEAF_BITSIZE) + 1) :
            find(Self, t, TRUE, heap) = find(ComplementTree, t, FALSE, heap)

-----------------------------------------------------------------------------
(* LineRankSelect<ByteFenwickTree, WORDS>, LEAF_BITSIZE = 7 + WORDS - 1 *)

\* number of 1-bits of a word
popcount(w) == Cardinality(w)

\* position of the (k+1)-th 1-bit of a word, k < popcount(w)
select64(w, k) == CHOOSE e \in w : Cardinality({x \in w : x < e}) = k

\* the mask of `count` bits starting at bit `pos`
compact_bitmask(count, pos) == pos..(pos + count - 1)

\* ~w
Complement(w) == (0..63) \ w

\* _bitvector[i]: a word of the array, or what lies in memory after it
WordAt(bv, i, h) == IF i \in DOMAIN bv THEN bv[i] ELSE h

\* sequence[b] after the loop of build_fenwick: the popcounts of block b
RECURSIVE BlockCount(_, _, _, _, _)
BlockCount(src, length, Wd, b, i) ==
    IF i >= length THEN 0
    ELSE (IF i \div Wd = b THEN popcount(src[i]) ELSE 0)
         + BlockCount(src, length, Wd, b, i + 1)

\* build_fenwick(bitvector, length): the tree of `length` nodes built from the
\* array of length/WORDS + 1 block counts; what the constructor reads past
\* that array is whatever the memory holds, of which the low 24 bits are kept
\* (the constructor stores at most the low get_size bytes of what it sums,
\* 3 bytes within the bounds)
build_fenwick(Wd, src, length, h) ==
    LET alloc == (length \div Wd) + 1
        seq == [b \in 0..(length - 1) |->
                   IF b < alloc THEN BlockCount(src, length, Wd, b, 0)
                   ELSE LowBits(h, 0, 24)]
    IN  ByteFenwickTree(7 + Wd - 1, seq, length, h)

\* what build_fenwick reads through its pointer argument: the caller's array
\* (copying constructor), or the words behind the not yet initialised
\* _bitvector member (constructor taking a DArray by move; tree is declared,
\* and so initialised, before _bitvector)
CtorSource(c, bv, h) ==
    IF c = "copy" THEN bv ELSE [i \in DOMAIN bv |-> h]

\* the dictionary made of the current values of its fields
SelfRS == [WORDS |-> WORDS, tree |-> Self, bitvector |-> bitvector]

RECURSIVE RankLoop(_, _, _, _)
RankLoop(R, i, stop, h) ==
    IF i >= stop THEN 0
    ELSE popcount(WordAt(R.bitvector, i, h)) + RankLoop(R, i + 1, stop, h)

\* uint64_t rank(size_t pos)
rank(R, pos, h) ==
    LET idx == pos \div (64 * R.WORDS)
        value == IF idx # 0 THEN get(R.tree, idx - 1, h) ELSE 0
    IN  value + RankLoop(R, idx * R.WORDS, pos \div 64, h)
        + popcount(WordAt(R.bitvector, pos \div 64, h)
                   \cap compact_bitmask(pos % 64, 0))

\* the indices of the words of _bitvector that rank(pos) reads
rank_reads(R, pos) ==
    LET idx == pos \div (64 * R.WORDS)
    IN  ((idx * R.WORDS)..((pos \div 64) - 1)) \cup {pos \div 64}

\* uint64_t rankZero(size_t pos)
rankZero(R, pos, h) == pos - rank(R, pos, h)

\* the scan of the words of block idx, shared by select and selectZero
RECURSIVE SelectLoop(_, _, _, _, _, _)
SelectLoop(R, idx, i, r, zero, h) ==
    IF i >= idx * R.WORDS + R.WORDS THEN (idx + 1) * R.WORDS * 64
    ELSE LET w == IF zero THEN Complement(WordAt(R.bitvector, i, h))
                  ELSE WordAt(R.bitvector, i, h)
             rank_chunk == popcount(w)
         IN  IF ULt(r, rank_chunk) THEN i * 64 + select64(w, r)
             ELSE SelectLoop(R, idx, i + 1, r - rank_chunk, zero, h)

\* size_t select(uint64_t rank)
select(R, r, h) ==
    LET idx == find(R.tree, r, FALSE, h) + 1
        rest == r - (IF idx # 0 THEN get(R.tree, idx - 1, h) ELSE 0)
    IN  SelectLoop(R, idx, idx * R.WORDS, rest, FALSE, h)

\* the indices of the words of _bitvector that the scan of select reads
RECURSIVE SelectReadsLoop(_, _, _, _, _)
SelectReadsLoop(R, idx, i, r, h) ==
    IF i >= idx * R.WORDS + R.WORDS THEN {}
    ELSE LET rank_chunk == popcount(WordAt(R.bitvector, i, h))
         IN  {i} \cup (IF ULt(r, rank_chunk) THEN {}
                       ELSE SelectReadsLoop(R, idx, i + 1, r - rank_chunk, h))

\* the indices of the words of _bitvector that select(rank) reads
select_reads(R, r, h) ==
    LET idx == find(R.tree, r, FALSE, h) + 1
        rest == r - (IF idx # 0 THEN get(R.tree, idx - 1, h) ELSE 0)
    IN  SelectReadsLoop(R, idx, idx * R.WORDS, rest, h)

\* size_t selectZero(uint64_t rank)
selectZero(R, r, h) ==
    LET idx == find(R.tree, r, TRUE, h) + 1
        rest == r - (64 * idx * R.WORDS
                     - (IF idx # 0 THEN get(R.tree, idx - 1, h) ELSE 0))
    IN  SelectLoop(R, idx, idx * R.WORDS, rest, TRUE, h)

-----------------------------------------------------------------------------
(* SpecRS: one LineRankSelect under update calls *)

\* the word 0xAAAAAAAAAAAAAAAA
AltWord == {b \in 0..63 : b % 2 = 1}

\* the words explored
WordVals == {{}, 0..63, AltWord}

InitRS ==
    \E Wd \in 1..MaxWords, length \in 1..MaxLen, hp \in HeapWords,
       c \in {"copy", "move"} :
      \E bv \in [0..(length - 1) -> WordVals] :
        LET T == build_fenwick(Wd, CtorSource(c, bv, hp), length, hp)
        IN  /\ LEAF_BITSIZE = T.LB
            /\ size = T.size
            /\ level = T.level
            /\ tree = T.tree
            /\ WORDS = Wd
            /\ bitvector = bv
            /\ heap = hp
            /\ sequence = << >>
            /\ naive = << >>
            /\ ctor = c
            /\ ncalls = 0
            /\ lastInc = 0

\* uint64_t update(size_t index, uint64_t word)
Update(index, word) ==
    /\ ncalls < MaxUpdates
    /\ LET old == bitvector[index]
           inc == popcount(word) - popcount(old)
       IN  /\ bitvector' = [bitvector EXCEPT ![index] = word]
           /\ tree' = set(Self, index \div WORDS, inc).tree
           /\ lastInc' = inc
    /\ ncalls' = ncalls + 1
    /\ UNCHANGED <<LEAF_BITSIZE, size, level, WORDS, heap, sequence, naive, ctor>>

NextRS ==
    \E index \in DOMAIN bitvector, word \in WordVals : Update(index, word)

SpecRS == InitRS /\ [][NextRS]_vars

\* number of words of the bit vector
Length == Cardinality(DOMAIN bitvector)

\* number of 1-bits in positions [0, p) of the bit vector
RECURSIVE OnesBefore(_, _)
OnesBefore(p, i) ==
    IF i >= Length \/ 64 * i >= p THEN 0
    ELSE Cardinality({b \in bitvector[i] : 64 * i + b < p}) + OnesBefore(p, i + 1)

\* the bit at position p of the bit vector (FALSE outside it)
BitAt(p) == p >= 0 /\ p < 64 * Length /\ (p % 64) \in bitvector[p \div 64]

-----------------------------------------------------------------------------
(* Claims about LineRankSelect, checked under SpecRS *)

\* C7 (consistency): after construction by either constructor and after any
\* sequence of updates, for every block b the tree's get(b) is the popcount
\* of the words in blocks 0..b.
C7_TreeConsistent ==
    WORDS > 0 =>
        \A b \in 0..((Length - 1) \div WORDS) :
            get(Self, b, heap) =
                OnesBefore(64 * WORDS * (b + 1), 0)

\* The part of C7 that holds: the tree of an object built by the copying
\* constructor is consistent with the bit vector, also after updates.
C7_TreeConsistentCopy == ctor = "copy" => C7_TreeConsistent

\* C8: for every p in [0, 64*length], rank(p) is the number of 1-bits in
\* positions [0, p) and reads only words with index < length (stated for
\* an object built by the copying constructor).
C8_RankCounts ==
    ctor = "copy" =>
        \A p \in 0..(64 * Length) :
            /\ rank(SelfRS, p, heap) = OnesBefore(p, 0)
            /\ rank_reads(SelfRS, p) \subseteq 0..(Length - 1)

\* The part of C8 that holds: the value rank(p) returns, for an object built
\* by the copying constructor (the word read past the array is masked out).
C8_RankValue ==
    ctor = "copy" =>
        \A p \in 0..(64 * Length) : rank(SelfRS, p, heap) = OnesBefore(p, 0)

\* C9 (select law): for every k < popcount(B), the bit at select(k) is 1 and
\* rank(select(k)) = k (stated for an object built by the copying
\* constructor).
C9_SelectLaw ==
    ctor = "copy" =>
        \A k \in 0..(OnesBefore(64 * Length, 0) - 1) :
            LET s == select(SelfRS, k, heap)
            IN  BitAt(s) /\ rank(SelfRS, s, heap) = k

\* C10 (select-zero law): for every block width and every k < number of
\* 0-bits of B, the bit at selectZero(k) is 0 and rankZero(selectZero(k)) = k
\* (stated for an object built by the copying constructor).
C10_SelectZeroLaw ==
    ctor = "copy" =>
        \A k \in 0..(64 * Length - OnesBefore(64 * Length, 0) - 1) :
            LET s == selectZero(SelfRS, k, heap)
            IN  /\ s >= 0 /\ s < 64 * Length /\ ~BitAt(s)
                /\ rankZero(SelfRS, s, heap) = k

\* C11 (out-of-range select): for every k >= the number of 1-bits of B,
\* select(k) returns SIZE_MAX and reads no word with index >= length (stated
\* for an object built by the copying constructor, k up to 64 past the total).
C11_SelectOutOfRange ==
    ctor = "copy" =>
        LET total == OnesBefore(64 * Length, 0)
        IN  \A k \in {total, total + 1, total + 64} :
                /\ select(SelfRS, k, heap) = -1
                /\ select_reads(SelfRS, k, heap) \subseteq 0..(Length - 1)

\* C12 (frame of set): a call set(i, d) that keeps every touched node within
\* [0, level maximum] adds d to exactly the nodes x = i+1, x + (x & -x), ...
\* <= N, at most floor(log2 N) + 1 of them, and leaves the value of every
\* other node and every byte of the buffer outside the path nodes unchanged.
C12_SetFrame ==
    [][(ctor = "tree" /\ ncalls' = ncalls + 1) =>
        LET i == CHOOSE j \in 0..(size - 1) : sequence'[j] # sequence[j]
            d == lastInc'
            path == SetPath(Self, i + 1)
            touched == UNION {NodeBytes(Self, x) : x \in path}
        IN  /\ d = sequence'[i] - sequence[i]
            /\ Cardinality(path) <= find_last_set(size)
            /\ \A x \in 1..size :
                   NodeValue(Self, tree', x, heap) =
                       NodeValue(Self, tree, x, heap) + (IF x \in path THEN d ELSE 0)
            /\ \A x \in path :
                   /\ NodeValue(Self, tree', x, heap) >= 0
                   /\ NodeValue(Self, tree', x, heap)
                          <= Pow2(LEAF_BITSIZE + find_first_set(x) - 2)
            /\ DOMAIN tree' = DOMAIN tree
            /\ \A b \in (DOMAIN tree) \ touched : tree'[b] = tree[b]]_vars

\* a negative increment was applied at index 0 of a tree of 5 elements: the
\* path 1, 2, 4 of three nodes, the last one two bytes wide
C12_Witness ==
    /\ ctor = "tree" /\ ncalls = 1 /\ lastInc = -64 /\ size = 5 /\ LEAF_BITSIZE = 7
    /\ sequence[0] = 0 /\ sequence[1] = 64 /\ sequence[2] = 64 /\ sequence[3] = 64
    /\ NodeValue(Self, tree, 4, heap) = 3 * 64
    /\ NodeValue(Self, tree, 3, heap) = 64

\* C13 (absent nodes in find): in find and find_complement, whenever the
\* candidate node has a label > N, the value compared against t is not loaded
\* from bytes of a real node and the search does not move right onto it.
C13_AbsentNodesSkipped ==
    ctor = "tree" =>
        \A t \in FindArgs, complement \in BOOLEAN :
            \A s \in find_steps(Self, t, complement, heap) :
                s.label > size =>
                    /\ s.bytes \cap UNION {NodeBytes(Self, x) : x \in 1..size} = {}
                    /\ ~s.moved

\* C14 (wide accesses stay in the buffer): the 8-byte load or store at the
\* base byte of every real node lies inside the level[levels] + 3 bytes the
\* constructor allocates: base + 8 <= allocation size, for the last node of
\* the top level too.
C14_WideAccessInBuffer ==
    ctor = "tree" =>
        \A x \in 1..size : NodePos(Self, x) + 8 <= Cardinality(DOMAIN tree)

====
